---- MODULE Spec2Model ----
(***************************************************************************)
(* Model of semeio's fm_pyscal forward model                               *)
(* (src/semeio/jobs/scripts/fm_pyscal.py).                                 *)
(*                                                                         *)
(* Python strings are sequences of one-character strings, so that          *)
(* split/join/lower act on characters.  A dict is the sequence of its      *)
(* items in insertion order, each item a record [key, value], with         *)
(* pairwise distinct keys.  A float is an integer number of tenths.        *)
(* An optional value is the empty set (None) or a singleton.               *)
(***************************************************************************)
EXTENDS Integers, Sequences, FiniteSets, TLC

VARIABLES
    relperm_exists,     \* file system: os.path.exists(relperm_parameters_file)
    parameters_txt,     \* file system: "missing", "malformed" or "wellformed"
    args,               \* the arguments run() was called with
    pc,                 \* position in run() / _get_interpolation_values()
    int_param_wo_name,  \* local of run(), reassigned at line 148
    int_param_go_name,  \* local of run(), reassigned at lines 149 and 159
    do_interpolation,   \* local of run(); {} while unassigned
    slgof,              \* local of run(), reassigned at line 167
    parameters,         \* lines read from parameters.txt, as (key, value) records
    parameter_dict,     \* local of _get_interpolation_values()
    int_param_wo,       \* None or the float handed to pyscal
    int_param_go,
    sheet_name,         \* local of run(): Some(string) or None
    trace,              \* the file-system and library calls made so far
    calls,              \* the keyword arguments of every pyscal_main call
    raised,             \* "none" or the exception that ended the run
    exit_status,        \* None or the exit status of the process
    s_in,               \* argument of a stand-alone rm_genkw_prefix call
    s_out               \* its result: None or Some(string)

vars == <<relperm_exists, parameters_txt, args, pc, int_param_wo_name,
          int_param_go_name, do_interpolation, slgof, parameters,
          parameter_dict, int_param_wo, int_param_go, sheet_name, trace,
          calls, raised, exit_status, s_in, s_out>>

runVars == <<relperm_exists, parameters_txt, args, pc, int_param_wo_name,
             int_param_go_name, do_interpolation, slgof, parameters,
             parameter_dict, int_param_wo, int_param_go, sheet_name, trace,
             calls, raised, exit_status>>

-----------------------------------------------------------------------------
(* Bounds *)

MaxLines == 2
MaxLen == 4

-----------------------------------------------------------------------------
(* Values *)

None == {}
Some(x) == {x}
The(o) == CHOOSE x \in o : TRUE

MAGIC_NONE == <<"_", "_", "N", "O", "N", "E", "_", "_">>

BASE == <<"_", "_", "B", "A", "S", "E", "_", "_">>
LOW == <<"_", "_", "L", "O", "W", "_", "_">>
PESS == <<"_", "_", "P", "E", "S", "S", "_", "_">>
PESSIMISTIC == <<"_", "_", "P", "E", "S", "S", "I", "M", "I", "S", "T", "I", "C", "_", "_">>
HIGH == <<"_", "_", "H", "I", "G", "H", "_", "_">>
OPT == <<"_", "_", "O", "P", "T", "_", "_">>
OPTIMISTIC == <<"_", "_", "O", "P", "T", "I", "M", "I", "S", "T", "I", "C", "_", "_">>

StrVal(s) == [kind |-> "str", str |-> s, int |-> 0]
IntVal(n) == [kind |-> "int", str |-> "", int |-> n]

MAGIC_CASES ==
    << [key |-> BASE, value |-> IntVal(0)],
       [key |-> LOW, value |-> IntVal(-1)],
       [key |-> PESS, value |-> IntVal(-1)],
       [key |-> PESSIMISTIC, value |-> IntVal(-1)],
       [key |-> HIGH, value |-> IntVal(1)],
       [key |-> OPT, value |-> IntVal(1)],
       [key |-> OPTIMISTIC, value |-> IntVal(1)] >>

-----------------------------------------------------------------------------
(* Python built-ins *)

\* str.lower() on the letters the model uses
LowerChar(c) ==
    CASE c = "S" -> "s"
      [] c = "G" -> "g"
      [] c = "O" -> "o"
      [] c = "F" -> "f"
      [] c = "L" -> "l"
      [] c = "W" -> "w"
      [] OTHER -> c

Lower(s) == [i \in 1..Len(s) |-> LowerChar(s[i])]

HasColon(s) == \E i \in 1..Len(s) : s[i] = ":"

FirstColon(s) == CHOOSE i \in 1..Len(s) : s[i] = ":" /\ \A j \in 1..(i - 1) : s[j] # ":"

\* str.split(":")
RECURSIVE Split(_)
Split(s) ==
    IF HasColon(s)
    THEN <<SubSeq(s, 1, FirstColon(s) - 1)>> \o Split(SubSeq(s, FirstColon(s) + 1, Len(s)))
    ELSE <<s>>

\* ":".join(parts)
RECURSIVE Join(_)
Join(parts) ==
    IF Len(parts) = 0 THEN <<>>
    ELSE IF Len(parts) = 1 THEN parts[1]
    ELSE parts[1] \o <<":">> \o Join(Tail(parts))

\* float(): of an int, and of the strings that occur as values in the model.
\* The result is in tenths; a string float() rejects has no result.
FloatOfStr(s) ==
    CASE s = "0.5" -> Some(5)
      [] s = "-1" -> Some(-10)
      [] OTHER -> None

Float(v) == IF v.kind = "int" THEN Some(v.int * 10) ELSE FloatOfStr(v.str)

\* key in d
DictHas(d, k) == \E i \in 1..Len(d) : d[i].key = k

\* d[k]
DictGet(d, k) == d[CHOOSE i \in 1..Len(d) : d[i].key = k].value

\* d[k] = v: an existing key keeps its position
DictSet(d, k, v) ==
    IF DictHas(d, k)
    THEN [i \in 1..Len(d) |-> IF d[i].key = k THEN [key |-> k, value |-> v] ELSE d[i]]
    ELSE Append(d, [key |-> k, value |-> v])

\* d.update(other)
RECURSIVE DictUpdateMagicLoses(_, _)
DictUpdateMagicLoses(d, other) ==
    IF Len(other) = 0 THEN d
    ELSE DictUpdateMagicLoses(
             IF DictHas(d, other[1].key) THEN d
             ELSE DictSet(d, other[1].key, other[1].value),
             Tail(other))

RECURSIVE DictUpdate(_, _)
DictUpdate(d, other) ==
    IF Len(other) = 0 THEN d
    ELSE DictUpdate(DictSet(d, other[1].key, other[1].value), Tail(other))

-----------------------------------------------------------------------------
(* rm_genkw_prefix *)

rm_genkw_prefix_second_part(s) ==
    IF HasColon(s) THEN Split(s)[2] ELSE s

\* the string branch
rm_genkw_prefix(s) ==
    IF HasColon(s) THEN Join(Tail(Split(s))) ELSE s

rm_genkw_prefix_dict_keeps_keys(d) == d

\* the dict branch: a comprehension over d.items()
RECURSIVE rm_genkw_prefix_items(_, _)
rm_genkw_prefix_items(items, acc) ==
    IF Len(items) = 0 THEN acc
    ELSE rm_genkw_prefix_items(
             Tail(items),
             DictSet(acc, rm_genkw_prefix(items[1].key), items[1].value))

rm_genkw_prefix_dict(d) == rm_genkw_prefix_items(d, <<>>)

\* semeio.jobs.design_kw.design_kw.extract_key_value on well-formed lines
RECURSIVE extract_items(_, _)
extract_items(lines, acc) ==
    IF Len(lines) = 0 THEN acc
    ELSE extract_items(Tail(lines), DictSet(acc, lines[1].key, StrVal(lines[1].value)))

extract_key_value(lines) == extract_items(lines, <<>>)

-----------------------------------------------------------------------------
(* The inputs of a run *)

A == <<"A">>
B == <<"B">>
NS_A == <<"N", ":", "A">>
MS_A == <<"M", ":", "A">>
NS_NONE == <<"N", ":">> \o MAGIC_NONE

NameArgs == {MAGIC_NONE, NS_NONE, A, MS_A, HIGH, LOW, BASE, B}
SheetArgs == {<<"0">>, MAGIC_NONE, <<"S">>}
SlgofArgs == {<<"s", "g", "o", "f">>, <<"S", "L", "g", "o", "f">>, <<"s", "w", "o", "f">>}
FamilyArgs == {0, 1, 2, 3}

FileKeys == {A, NS_A, HIGH}
FileValues == {"0.5", "-1", "x"}
Lines == [key : FileKeys, value : FileValues]
LineSeqs == UNION {[1..n -> Lines] : n \in 0..MaxLines}

Alphabet == {"a", "b", ":"}
Strings == UNION {[1..n -> Alphabet] : n \in 0..MaxLen}

-----------------------------------------------------------------------------
(* How a run ends *)

\* sys.exit(code): SystemExit leaves main_entry_point, the process exits with code
SysExit(code) ==
    /\ raised' = "SystemExit"
    /\ exit_status' = Some(code)
    /\ pc' = "terminated"

\* an exception nothing catches: the interpreter prints it and exits with 1
Uncaught(exc) ==
    /\ raised' = exc
    /\ exit_status' = Some(1)
    /\ pc' = "terminated"

\* run() and main_entry_point() return: the interpreter exits with 0
Return ==
    /\ raised' = "none"
    /\ exit_status' = Some(0)
    /\ pc' = "terminated"

Continue(next) ==
    /\ pc' = next
    /\ UNCHANGED <<raised, exit_status>>

-----------------------------------------------------------------------------
(* run() *)

Init ==
    /\ relperm_exists \in BOOLEAN
    /\ parameters_txt \in {"missing", "malformed", "wellformed"}
    /\ args \in [sheet_name : SheetArgs,
                 int_param_wo_name : NameArgs,
                 int_param_go_name : NameArgs,
                 slgof : SlgofArgs,
                 family : FamilyArgs]
    /\ pc = "exists_relperm"
    /\ int_param_wo_name = args.int_param_wo_name
    /\ int_param_go_name = args.int_param_go_name
    /\ do_interpolation = None
    /\ slgof = args.slgof
    /\ parameters = <<>>
    /\ parameter_dict = <<>>
    /\ int_param_wo = None
    /\ int_param_go = None
    /\ sheet_name = Some(args.sheet_name)
    /\ trace = <<>>
    /\ calls = <<>>
    /\ raised = "none"
    /\ exit_status = None
    /\ s_in = <<>>
    /\ s_out = None

CheckRelpermIgnored ==
    /\ pc = "exists_relperm"
    /\ trace' = Append(trace, "exists_relperm")
    /\ Continue("rm_prefix")
    /\ UNCHANGED <<relperm_exists, parameters_txt, args, int_param_wo_name,
                   int_param_go_name, do_interpolation, slgof, parameters,
                   parameter_dict, int_param_wo, int_param_go, sheet_name,
                   calls, s_in, s_out>>

CheckRelperm ==
    /\ pc = "exists_relperm"
    /\ trace' = Append(trace, "exists_relperm")
    /\ IF ~relperm_exists THEN SysExit(1) ELSE Continue("rm_prefix")
    /\ UNCHANGED <<relperm_exists, parameters_txt, args, int_param_wo_name,
                   int_param_go_name, do_interpolation, slgof, parameters,
                   parameter_dict, int_param_wo, int_param_go, sheet_name,
                   calls, s_in, s_out>>

RemovePrefix ==
    /\ pc = "rm_prefix"
    /\ int_param_wo_name' = rm_genkw_prefix(int_param_wo_name)
    /\ int_param_go_name' = rm_genkw_prefix(int_param_go_name)
    /\ Continue("scenario")
    /\ UNCHANGED <<relperm_exists, parameters_txt, args, do_interpolation,
                   slgof, parameters, parameter_dict, int_param_wo,
                   int_param_go, sheet_name, trace, calls, s_in, s_out>>

ScenarioSymmetric ==
    /\ pc = "scenario"
    /\ IF int_param_wo_name # MAGIC_NONE /\ int_param_go_name # MAGIC_NONE
       THEN /\ do_interpolation' = Some(TRUE)
            /\ UNCHANGED <<int_param_wo_name, int_param_go_name>>
       ELSE IF int_param_wo_name # MAGIC_NONE /\ int_param_go_name = MAGIC_NONE
       THEN /\ do_interpolation' = Some(TRUE)
            /\ int_param_go_name' = int_param_wo_name
            /\ UNCHANGED int_param_wo_name
       ELSE IF int_param_wo_name = MAGIC_NONE /\ int_param_go_name = MAGIC_NONE
       THEN /\ do_interpolation' = Some(FALSE)
            /\ UNCHANGED <<int_param_wo_name, int_param_go_name>>
       ELSE /\ do_interpolation' = Some(TRUE)
            /\ int_param_wo_name' = int_param_go_name
            /\ UNCHANGED int_param_go_name
    /\ Continue("slgof")
    /\ UNCHANGED <<relperm_exists, parameters_txt, args, slgof, parameters,
                   parameter_dict, int_param_wo, int_param_go, sheet_name,
                   trace, calls, s_in, s_out>>

ScenarioNoDefault ==
    /\ pc = "scenario"
    /\ IF int_param_wo_name # MAGIC_NONE /\ int_param_go_name # MAGIC_NONE
       THEN do_interpolation' = Some(TRUE) /\ Continue("slgof")
       ELSE IF int_param_wo_name # MAGIC_NONE /\ int_param_go_name = MAGIC_NONE
       THEN do_interpolation' = Some(TRUE) /\ Continue("slgof")
       ELSE IF int_param_wo_name = MAGIC_NONE /\ int_param_go_name = MAGIC_NONE
       THEN do_interpolation' = Some(FALSE) /\ Continue("slgof")
       ELSE UNCHANGED do_interpolation /\ SysExit(1)
    /\ UNCHANGED <<relperm_exists, parameters_txt, args, int_param_wo_name,
                   int_param_go_name, slgof, parameters, parameter_dict,
                   int_param_wo, int_param_go, sheet_name, trace, calls,
                   s_in, s_out>>

ScenarioAlwaysInterpolate ==
    /\ pc = "scenario"
    /\ IF int_param_wo_name # MAGIC_NONE /\ int_param_go_name # MAGIC_NONE
       THEN /\ do_interpolation' = Some(TRUE)
            /\ UNCHANGED int_param_go_name
            /\ Continue("slgof")
       ELSE IF int_param_wo_name # MAGIC_NONE /\ int_param_go_name = MAGIC_NONE
       THEN /\ do_interpolation' = Some(TRUE)
            /\ int_param_go_name' = int_param_wo_name
            /\ Continue("slgof")
       ELSE IF int_param_wo_name = MAGIC_NONE /\ int_param_go_name = MAGIC_NONE
       THEN /\ do_interpolation' = Some(TRUE)
            /\ UNCHANGED int_param_go_name
            /\ Continue("slgof")
       ELSE /\ UNCHANGED <<do_interpolation, int_param_go_name>>
            /\ SysExit(1)
    /\ UNCHANGED <<relperm_exists, parameters_txt, args, int_param_wo_name,
                   slgof, parameters, parameter_dict, int_param_wo,
                   int_param_go, sheet_name, trace, calls, s_in, s_out>>

Scenario ==
    /\ pc = "scenario"
    /\ IF int_param_wo_name # MAGIC_NONE /\ int_param_go_name # MAGIC_NONE
       THEN /\ do_interpolation' = Some(TRUE)
            /\ UNCHANGED int_param_go_name
            /\ Continue("slgof")
       ELSE IF int_param_wo_name # MAGIC_NONE /\ int_param_go_name = MAGIC_NONE
       THEN /\ do_interpolation' = Some(TRUE)
            /\ int_param_go_name' = int_param_wo_name
            /\ Continue("slgof")
       ELSE IF int_param_wo_name = MAGIC_NONE /\ int_param_go_name = MAGIC_NONE
       THEN /\ do_interpolation' = Some(FALSE)
            /\ UNCHANGED int_param_go_name
            /\ Continue("slgof")
       ELSE /\ UNCHANGED <<do_interpolation, int_param_go_name>>
            /\ SysExit(1)
    /\ UNCHANGED <<relperm_exists, parameters_txt, args, int_param_wo_name,
                   slgof, parameters, parameter_dict, int_param_wo,
                   int_param_go, sheet_name, trace, calls, s_in, s_out>>

SGOF == <<"s", "g", "o", "f">>
SLGOF == <<"s", "l", "g", "o", "f">>

CheckSlgofIgnored ==
    /\ pc = "slgof"
    /\ slgof' = Lower(slgof)
    /\ Continue("family")
    /\ UNCHANGED <<relperm_exists, parameters_txt, args, int_param_wo_name,
                   int_param_go_name, do_interpolation, parameters,
                   parameter_dict, int_param_wo, int_param_go, sheet_name,
                   trace, calls, s_in, s_out>>

CheckSlgof ==
    /\ pc = "slgof"
    /\ slgof' = Lower(slgof)
    /\ IF slgof' \notin {SGOF, SLGOF} THEN SysExit(1) ELSE Continue("family")
    /\ UNCHANGED <<relperm_exists, parameters_txt, args, int_param_wo_name,
                   int_param_go_name, do_interpolation, parameters,
                   parameter_dict, int_param_wo, int_param_go, sheet_name,
                   trace, calls, s_in, s_out>>

CheckFamilyIgnored ==
    /\ pc = "family"
    /\ Continue("interpolation")
    /\ UNCHANGED <<relperm_exists, parameters_txt, args, int_param_wo_name,
                   int_param_go_name, do_interpolation, slgof, parameters,
                   parameter_dict, int_param_wo, int_param_go, sheet_name,
                   trace, calls, s_in, s_out>>

CheckFamily ==
    /\ pc = "family"
    /\ IF args.family \notin {1, 2} THEN SysExit(1) ELSE Continue("interpolation")
    /\ UNCHANGED <<relperm_exists, parameters_txt, args, int_param_wo_name,
                   int_param_go_name, do_interpolation, slgof, parameters,
                   parameter_dict, int_param_wo, int_param_go, sheet_name,
                   trace, calls, s_in, s_out>>

\* if do_interpolation: ... else: both values None
Interpolation ==
    /\ pc = "interpolation"
    /\ IF The(do_interpolation)
       THEN /\ Continue("gi_exists")
            /\ UNCHANGED <<int_param_wo, int_param_go>>
       ELSE /\ int_param_wo' = None
            /\ int_param_go' = None
            /\ Continue("sheet")
    /\ UNCHANGED <<relperm_exists, parameters_txt, args, int_param_wo_name,
                   int_param_go_name, do_interpolation, slgof, parameters,
                   parameter_dict, sheet_name, trace, calls, s_in, s_out>>

-----------------------------------------------------------------------------
(* _get_interpolation_values() *)

\* os.path.exists(parameters_file_name), else raise IOError
ParametersExist ==
    /\ pc = "gi_exists"
    /\ trace' = Append(trace, "exists_parameters")
    /\ IF parameters_txt = "missing" THEN Uncaught("IOError") ELSE Continue("gi_read")
    /\ UNCHANGED <<relperm_exists, parameters_txt, args, int_param_wo_name,
                   int_param_go_name, do_interpolation, slgof, parameters,
                   parameter_dict, int_param_wo, int_param_go, sheet_name,
                   calls, s_in, s_out>>

\* open + readlines, extract_key_value, rm_genkw_prefix, update(MAGIC_CASES)
ReadParameters ==
    /\ pc = "gi_read"
    /\ trace' = Append(trace, "open_parameters")
    /\ IF parameters_txt = "malformed"
       THEN /\ Uncaught("ValueError: extract_key_value")
            /\ UNCHANGED <<parameters, parameter_dict>>
       ELSE /\ \E lines \in LineSeqs :
                  /\ parameters' = lines
                  /\ parameter_dict' =
                         DictUpdate(rm_genkw_prefix_dict(extract_key_value(lines)),
                                    MAGIC_CASES)
            /\ Continue("gi_wo")
    /\ UNCHANGED <<relperm_exists, parameters_txt, args, int_param_wo_name,
                   int_param_go_name, do_interpolation, slgof, int_param_wo,
                   int_param_go, sheet_name, calls, s_in, s_out>>

\* lines 233-246
LookupWo ==
    /\ pc = "gi_wo"
    /\ IF ~DictHas(parameter_dict, int_param_wo_name)
       THEN /\ Uncaught("ValueError: Parameter name not found")
            /\ UNCHANGED <<int_param_wo, int_param_go>>
       ELSE IF Float(DictGet(parameter_dict, int_param_wo_name)) = None
       THEN /\ Uncaught("ValueError: float")
            /\ UNCHANGED <<int_param_wo, int_param_go>>
       ELSE /\ int_param_wo' = Float(DictGet(parameter_dict, int_param_wo_name))
            /\ int_param_go' = int_param_wo'
            /\ Continue("gi_go")
    /\ UNCHANGED <<relperm_exists, parameters_txt, args, int_param_wo_name,
                   int_param_go_name, do_interpolation, slgof, parameters,
                   parameter_dict, sheet_name, trace, calls, s_in, s_out>>

\* lines 248-262
LookupGo ==
    /\ pc = "gi_go"
    /\ IF ~DictHas(parameter_dict, int_param_go_name)
       THEN /\ Uncaught("ValueError: Parameter name not found")
            /\ UNCHANGED int_param_go
       ELSE IF Float(DictGet(parameter_dict, int_param_go_name)) = None
       THEN /\ Uncaught("ValueError: float")
            /\ UNCHANGED int_param_go
       ELSE /\ int_param_go' = Float(DictGet(parameter_dict, int_param_go_name))
            /\ Continue("sheet")
    /\ UNCHANGED <<relperm_exists, parameters_txt, args, int_param_wo_name,
                   int_param_go_name, do_interpolation, slgof, parameters,
                   parameter_dict, int_param_wo, sheet_name, trace, calls,
                   s_in, s_out>>

-----------------------------------------------------------------------------
(* run(), continued *)

SheetSelectOnlyZero ==
    /\ pc = "sheet"
    /\ sheet_name' = IF sheet_name = Some(<<"0">>) THEN None ELSE sheet_name
    /\ Continue("pyscal")
    /\ UNCHANGED <<relperm_exists, parameters_txt, args, int_param_wo_name,
                   int_param_go_name, do_interpolation, slgof, parameters,
                   parameter_dict, int_param_wo, int_param_go, trace, calls,
                   s_in, s_out>>

SheetSelect ==
    /\ pc = "sheet"
    /\ sheet_name' = IF sheet_name \in {Some(<<"0">>), Some(MAGIC_NONE)}
                     THEN None
                     ELSE sheet_name
    /\ Continue("pyscal")
    /\ UNCHANGED <<relperm_exists, parameters_txt, args, int_param_wo_name,
                   int_param_go_name, do_interpolation, slgof, parameters,
                   parameter_dict, int_param_wo, int_param_go, trace, calls,
                   s_in, s_out>>

\* pyscalcli.pyscal_main(...) returns, or raises a ValueError that run()
\* logs and raises again
CallPyscal ==
    /\ pc = "pyscal"
    /\ trace' = Append(trace, "pyscal_main")
    /\ calls' = Append(calls, [sheet_name |-> sheet_name,
                               int_param_wo |-> int_param_wo,
                               int_param_go |-> int_param_go,
                               slgof |-> (slgof = SLGOF),
                               family2 |-> (args.family = 2)])
    /\ \/ Return
       \/ Uncaught("ValueError: pyscal_main")
    /\ UNCHANGED <<relperm_exists, parameters_txt, args, int_param_wo_name,
                   int_param_go_name, do_interpolation, slgof, parameters,
                   parameter_dict, int_param_wo, int_param_go, sheet_name,
                   s_in, s_out>>

Next ==
    \/ CheckRelperm
    \/ RemovePrefix
    \/ Scenario
    \/ CheckSlgof
    \/ CheckFamily
    \/ Interpolation
    \/ ParametersExist
    \/ ReadParameters
    \/ LookupWo
    \/ LookupGo
    \/ SheetSelect
    \/ CallPyscal

Spec == Init /\ [][Next]_vars

-----------------------------------------------------------------------------
(* rm_genkw_prefix() called on its own, on every string up to MaxLen *)

InitNorm ==
    /\ relperm_exists = FALSE
    /\ parameters_txt = "missing"
    /\ args = [sheet_name |-> MAGIC_NONE,
               int_param_wo_name |-> MAGIC_NONE,
               int_param_go_name |-> MAGIC_NONE,
               slgof |-> SGOF,
               family |-> 1]
    /\ pc = "terminated"
    /\ int_param_wo_name = MAGIC_NONE
    /\ int_param_go_name = MAGIC_NONE
    /\ do_interpolation = None
    /\ slgof = SGOF
    /\ parameters = <<>>
    /\ parameter_dict = <<>>
    /\ int_param_wo = None
    /\ int_param_go = None
    /\ sheet_name = None
    /\ trace = <<>>
    /\ calls = <<>>
    /\ raised = "none"
    /\ exit_status = None
    /\ s_in \in Strings
    /\ s_out = None

Normalize ==
    /\ s_out = None
    /\ s_out' = Some(rm_genkw_prefix(s_in))
    /\ UNCHANGED <<runVars, s_in>>

NextNorm == Normalize

SpecNorm == InitNorm /\ [][NextNorm]_vars

-----------------------------------------------------------------------------
(* Vocabulary of the properties *)

\* the normalized form of a name: the text after its first colon, if any
Normalized(s) ==
    IF HasColon(s) THEN SubSeq(s, FirstColon(s) + 1, Len(s)) ELSE s

MagicNames == {BASE, LOW, PESS, PESSIMISTIC, HIGH, OPT, OPTIMISTIC}

\* the magic constant of a scenario name, as a float (in tenths)
MagicConstant(name) ==
    CASE name = BASE -> Some(0)
      [] name \in {LOW, PESS, PESSIMISTIC} -> Some(-10)
      [] name \in {HIGH, OPT, OPTIMISTIC} -> Some(10)

Terminated == pc = "terminated"

InTrace(e) == \E i \in 1..Len(trace) : trace[i] = e

ParametersTouched == InTrace("exists_parameters") \/ InTrace("open_parameters")

WoRequested == Normalized(args.int_param_wo_name) # MAGIC_NONE
GoRequested == Normalized(args.int_param_go_name) # MAGIC_NONE

GasOilOnly == GoRequested /\ ~WoRequested
WaterOilOnly == WoRequested /\ ~GoRequested
NothingRequested == ~WoRequested /\ ~GoRequested

VariantAccepted == args.slgof \in {<<"s", "g", "o", "f">>, <<"S", "L", "g", "o", "f">>}
FamilyAccepted == args.family \in {1, 2}

\* the lines of parameters.txt whose normalized key is the normalized name n
Entries(n) == {i \in 1..Len(parameters) : Normalized(parameters[i].key) = Normalized(n)}

\* the normalized name n is a key of the augmented table
InAugmentedTable(n) == Entries(n) # {} \/ Normalized(n) \in MagicNames

\* the table has been read and augmented
TableLoaded == InTrace("open_parameters") /\ parameters_txt = "wellformed"

\* the water-oil value has been looked up and converted
WoResolved == pc \in {"gi_go", "sheet", "pyscal"} \/ calls # <<>>

\* the gas-oil value has been looked up and converted
GoResolved == pc \in {"sheet", "pyscal"} \/ calls # <<>>

NotFound == raised = "ValueError: Parameter name not found"

-----------------------------------------------------------------------------
(* Properties *)

\* C1: when the relperm file exists and only the gas-oil name is given, the
\* run exits with status 1 at the scenario decision: parameters.txt is never
\* tested for existence or opened, pyscal_main is never called, and neither
\* the variant nor the family is looked at.
C1_GasOilOnlyExitsBeforeParameters ==
    (relperm_exists /\ GasOilOnly) =>
        /\ ~ParametersTouched
        /\ ~InTrace("pyscal_main")
        /\ calls = <<>>
        /\ pc \in {"exists_relperm", "rm_prefix", "scenario", "terminated"}
        /\ Terminated => (raised = "SystemExit" /\ exit_status = Some(1))

C1_Witness ==
    /\ relperm_exists
    /\ GasOilOnly
    /\ Terminated
    /\ exit_status = Some(1)
    /\ args.slgof = <<"s", "w", "o", "f">>
    /\ args.family = 3
    /\ parameters_txt = "missing"

\* C2: when only the water-oil name is given, the gas-oil name becomes the
\* normalized water-oil name, and pyscal_main receives the same value for
\* both, the float of that name's entry in the augmented table.
C2_WaterOilOnlySharesValue ==
    WaterOilOnly =>
        /\ do_interpolation # None =>
               int_param_go_name = Normalized(args.int_param_wo_name)
        /\ \A i \in 1..Len(calls) :
               /\ calls[i].int_param_wo # None
               /\ calls[i].int_param_go = calls[i].int_param_wo
               /\ DictHas(parameter_dict, Normalized(args.int_param_wo_name))
               /\ calls[i].int_param_wo =
                      Float(DictGet(parameter_dict, Normalized(args.int_param_wo_name)))

C2_Witness ==
    /\ WaterOilOnly
    /\ args.int_param_wo_name = MS_A
    /\ Len(calls) = 1
    /\ calls[1].int_param_wo = Some(5)
    /\ calls[1].int_param_go = Some(5)

\* C3: when both names are the sentinel, _get_interpolation_values is not
\* entered, parameters.txt is neither tested nor read, a missing or malformed
\* parameters.txt does not keep the run from reaching pyscal_main, and
\* pyscal_main gets None for both interpolation values.
C3_NothingRequestedSkipsResolution ==
    NothingRequested =>
        /\ ~ParametersTouched
        /\ pc \notin {"gi_exists", "gi_read", "gi_wo", "gi_go"}
        /\ raised \notin {"IOError", "ValueError: extract_key_value",
                          "ValueError: Parameter name not found", "ValueError: float"}
        /\ \A i \in 1..Len(calls) :
               calls[i].int_param_wo = None /\ calls[i].int_param_go = None
        /\ (Terminated /\ relperm_exists /\ VariantAccepted /\ FamilyAccepted) =>
               Len(calls) = 1

C3_Witness ==
    /\ NothingRequested
    /\ parameters_txt = "malformed"
    /\ Terminated
    /\ exit_status = Some(0)
    /\ Len(calls) = 1
    /\ calls[1].int_param_wo = None
    /\ calls[1].int_param_go = None

\* C4 as stated: a requested magic scenario name resolves to the magic
\* constant when parameters.txt has no entry of that normalized name, and to
\* the file's value when it has one.
C4_FileValueTakesPrecedence ==
    (WoResolved /\ WoRequested /\ Normalized(args.int_param_wo_name) \in MagicNames) =>
        IF Entries(args.int_param_wo_name) = {}
        THEN int_param_wo = MagicConstant(Normalized(args.int_param_wo_name))
        ELSE \E i \in Entries(args.int_param_wo_name) :
                 int_param_wo = FloatOfStr(parameters[i].value)

\* C4 amended: a requested magic scenario name is always found and resolves
\* to its magic constant (0, -1 or 1 as a float), whether or not
\* parameters.txt has an entry of that normalized name: the magic-constant
\* update overwrites file-loaded keys.
C4_MagicConstantTakesPrecedence ==
    /\ (WoResolved /\ WoRequested /\ Normalized(args.int_param_wo_name) \in MagicNames) =>
           int_param_wo = MagicConstant(Normalized(args.int_param_wo_name))
    /\ (GoResolved /\ GoRequested /\ Normalized(args.int_param_go_name) \in MagicNames) =>
           int_param_go = MagicConstant(Normalized(args.int_param_go_name))
    /\ (pc = "gi_wo" /\ Normalized(args.int_param_wo_name) \in MagicNames) =>
           DictHas(parameter_dict, int_param_wo_name)
    /\ (pc = "gi_go" /\ GoRequested /\ Normalized(args.int_param_go_name) \in MagicNames) =>
           DictHas(parameter_dict, int_param_go_name)

C4_Witness ==
    /\ pc = "gi_go"
    /\ args.int_param_wo_name = HIGH
    /\ \E i \in 1..Len(parameters) :
           parameters[i].key = HIGH /\ parameters[i].value = "0.5"
    /\ int_param_wo = Some(10)

\* the one line of parameters.txt that defines the normalized name n
UniqueEntry(n) == Cardinality(Entries(n)) = 1 /\ Normalized(n) \notin MagicNames

EntryValue(n) == parameters[CHOOSE i \in Entries(n) : TRUE].value

\* a requested name resolves to the float of the one file entry with the
\* same normalized key, so a plain and a namespaced request agree
C5_ResolvesByNormalizedName ==
    /\ (TableLoaded /\ WoResolved /\ UniqueEntry(args.int_param_wo_name)) =>
           /\ int_param_wo # None
           /\ int_param_wo = FloatOfStr(EntryValue(args.int_param_wo_name))
    /\ (TableLoaded /\ GoResolved /\ GoRequested /\ UniqueEntry(args.int_param_go_name)) =>
           /\ int_param_go # None
           /\ int_param_go = FloatOfStr(EntryValue(args.int_param_go_name))
    /\ (TableLoaded /\ GoResolved
          /\ Normalized(args.int_param_wo_name) = Normalized(args.int_param_go_name)) =>
           int_param_go = int_param_wo

\* C5 as stated: requests resolve by normalized name, and the run fails with
\* "parameter not found" exactly when a requested normalized name is absent
\* from the augmented table.
C5_NotFoundExactlyWhenAbsent ==
    /\ C5_ResolvesByNormalizedName
    /\ (Terminated /\ TableLoaded) =>
           (NotFound <=>
                \/ ~InAugmentedTable(args.int_param_wo_name)
                \/ GoRequested /\ ~InAugmentedTable(args.int_param_go_name))

\* C5 amended: requests resolve by normalized name on both sides, a plain
\* and a namespaced request for one parameter resolve to the same value, and
\* the run fails with "parameter not found" exactly when the table was loaded
\* and either the water-oil normalized name is absent from the augmented
\* table, or the water-oil value was found and converted to a float and the
\* gas-oil normalized name is absent: the gas-oil name is looked up only
\* after the water-oil value has been converted.
C5_NotFoundExactlyWhenLookedUpAndAbsent ==
    /\ C5_ResolvesByNormalizedName
    /\ Terminated =>
           (NotFound <=>
                /\ TableLoaded
                /\ \/ ~InAugmentedTable(args.int_param_wo_name)
                   \/ /\ int_param_wo # None
                      /\ GoRequested
                      /\ ~InAugmentedTable(args.int_param_go_name))

C5_Witness ==
    /\ Terminated
    /\ exit_status = Some(0)
    /\ args.int_param_wo_name = A
    /\ args.int_param_go_name = MS_A
    /\ parameters = <<[key |-> NS_A, value |-> "0.5"]>>
    /\ calls[1].int_param_wo = Some(5)
    /\ calls[1].int_param_go = Some(5)

\* C6: rm_genkw_prefix returns a string without a colon unchanged, and of a
\* string with colons everything after the first colon, later colons kept.
C6_PrefixRemoved ==
    s_out # None =>
        IF \A i \in 1..Len(s_in) : s_in[i] # ":"
        THEN s_out = Some(s_in)
        ELSE \E i \in 1..Len(s_in) :
                 /\ s_in[i] = ":"
                 /\ \A j \in 1..(i - 1) : s_in[j] # ":"
                 /\ s_out = Some(SubSeq(s_in, i + 1, Len(s_in)))

C6_Witness ==
    /\ s_in = <<"a", ":", "b", ":">>
    /\ s_out = Some(<<"b", ":">>)

\* C7: parameters.txt is tested for existence or read only after the relperm
\* file was found, the variant accepted and the family accepted; a missing
\* relperm file ends the run at once with status 1.
C7_ValidationPrecedesResolution ==
    /\ (ParametersTouched \/ pc \in {"gi_exists", "gi_read", "gi_wo", "gi_go"}) =>
           /\ relperm_exists
           /\ trace[1] = "exists_relperm"
           /\ VariantAccepted
           /\ slgof \in {SGOF, SLGOF}
           /\ FamilyAccepted
    /\ ~relperm_exists =>
           /\ pc \in {"exists_relperm", "terminated"}
           /\ ~ParametersTouched
           /\ Terminated =>
                  /\ trace = <<"exists_relperm">>
                  /\ raised = "SystemExit"
                  /\ exit_status = Some(1)

C7_Witness ==
    /\ InTrace("open_parameters")
    /\ args.slgof = <<"S", "L", "g", "o", "f">>
    /\ args.family = 2

\* a validation failure of the run
ValidationFailure ==
    \/ ~relperm_exists
    \/ ~FamilyAccepted
    \/ ~VariantAccepted
    \/ GasOilOnly
    \/ NotFound

\* C8: the process exits with 0 exactly when the run succeeds, and with 1
\* whenever the relperm file is missing, the family is not 1 or 2, the
\* variant is not sgof/slgof, only the gas-oil name is given, or a requested
\* name is not found.
C8_ExitStatus ==
    Terminated =>
        /\ exit_status # None
        /\ exit_status = Some(0) <=> raised = "none"
        /\ raised = "none" => Len(calls) = 1
        /\ ValidationFailure => exit_status = Some(1)

C8_Witness ==
    /\ Terminated
    /\ NotFound
    /\ exit_status = Some(1)
    /\ args.int_param_go_name = B

\* C9: pyscal_main gets None as sheet selector exactly when sheet_name is
\* "0" or the sentinel, and the sheet_name argument itself otherwise.
C9_SheetSelector ==
    \A i \in 1..Len(calls) :
        /\ calls[i].sheet_name = None <=> args.sheet_name \in {<<"0">>, MAGIC_NONE}
        /\ calls[i].sheet_name # None => calls[i].sheet_name = Some(args.sheet_name)

C9_Witness ==
    /\ Len(calls) = 1
    /\ args.sheet_name = MAGIC_NONE
    /\ calls[1].sheet_name = None

\* every step before the call of pyscal_main succeeded
AllStepsSucceeded ==
    /\ relperm_exists
    /\ ~GasOilOnly
    /\ VariantAccepted
    /\ FamilyAccepted
    /\ WoRequested =>
           /\ parameters_txt = "wellformed"
           /\ InAugmentedTable(args.int_param_wo_name)
           /\ Float(DictGet(parameter_dict, Normalized(args.int_param_wo_name))) # None
           /\ GoRequested =>
                  /\ InAugmentedTable(args.int_param_go_name)
                  /\ Float(DictGet(parameter_dict, Normalized(args.int_param_go_name))) # None

\* C10: pyscal_main is called at most once, and exactly in the runs where
\* every earlier step succeeded; a run that fails earlier never calls it.
C10_PyscalCalledIffAllSucceeded ==
    /\ Len(calls) <= 1
    /\ Len(calls) = Cardinality({i \in 1..Len(trace) : trace[i] = "pyscal_main"})
    /\ calls # <<>> => AllStepsSucceeded
    /\ Terminated => (Len(calls) = 1 <=> AllStepsSucceeded)
    /\ raised \in {"SystemExit", "IOError", "ValueError: extract_key_value",
                   "ValueError: Parameter name not found", "ValueError: float"} =>
           calls = <<>>

C10_Witness ==
    /\ Terminated
    /\ Len(calls) = 1
    /\ args.int_param_wo_name = A
    /\ args.int_param_go_name = HIGH
    /\ calls[1].int_param_wo = Some(-10)
    /\ calls[1].int_param_go = Some(10)

====
